---- MODULE Spec2Model ----
(***************************************************************************)
(* CodeAskCLI: the incremental analysis orchestrator                       *)
(* (codeaskcli/analyzer.py, codeaskcli/file_utils.py, codeaskcli/api.py,   *)
(* codeaskcli/cli.py).                                                     *)
(*                                                                         *)
(* The model follows CodeAnalyzer.analyze_project over several runs on     *)
(* the same project folder: discovery, loading of the previous snapshot    *)
(* (.codeaskdata), the diff, the pruning of stale artifacts, the worker    *)
(* pool running analyze_single_file with its retry loop, the merge,        *)
(* generate_summary and save_analysis_results.  Between two runs the       *)
(* environment may edit the project files.                                 *)
(***************************************************************************)
EXTENDS Integers, Sequences, FiniteSets, TLC

(***************************************************************************)
(* Bounds of the model                                                     *)
(***************************************************************************)
\* number of edits the environment makes to the project tree in a behaviour,
\* each made while no run is in progress
MaxEdits == 1
\* largest worker-pool size explored
MaxConcurrency == 2

(***************************************************************************)
(* Program constants                                                       *)
(***************************************************************************)
\* analyzer.py:30  max_retries = 3
max_retries == 3
\* analyzer.py:118 max_retries = 3 (generate_summary)
summary_max_retries == 3
\* analyzer.py:80  wait_time = 2 ** retry_count
backoff_base == 2

(***************************************************************************)
(* The project tree                                                        *)
(***************************************************************************)
\* project-relative paths of the files that may exist in the folder
Paths == {"a.py", "b.py"}
\* the texts a readable file may hold
Contents == {"v1", "v2"}
\* a path is absent, present but unreadable (open() raises), or holds a text
FileStates == {"absent", "unreadable"} \cup Contents

\* Python's None, as stored for configHash
None == "None"
\* fingerprints of the configuration file that a run may be given
ConfigHashes == {None, "K1", "K2"}

\* the path strings glob can return for the files of the folder: the
\* pattern './a.py' spells a.py differently from the pattern '*.py'
Files == {"proj/a.py", "proj/b.py", "proj/./a.py"}

\* the file patterns a run may be given
Patterns == {"*.py", "./a.py"}
\* the lists of file patterns a run is given in Spec: every file is matched
\* by one pattern
PatternLists == {{"*.py"}}
\* the lists of file patterns a run is given in SpecGlob: a.py is matched by
\* two patterns that spell it differently
GlobPatternLists == {{"*.py", "./a.py"}}

\* os.path.relpath(file_path, folder_path): normalises the spelling
relpath(f) ==
    CASE f = "proj/a.py"   -> "a.py"
      [] f = "proj/./a.py" -> "a.py"
      [] f = "proj/b.py"   -> "b.py"

\* hashlib.md5(bytes).hexdigest() on the texts of the model
md5(c) ==
    CASE c = "v1" -> "H1"
      [] c = "v2" -> "H2"

Hashes == {md5(c) : c \in Contents}

VARIABLES
    \* ---- durable state ----
    disk,          \* [Paths -> FileStates]: the project files
    artifacts,     \* [Paths -> content]: the per-file artifacts <path>.md
    snapshot,      \* the .codeaskdata file
    summary_md,    \* SUMMARY.md
    \* ---- arguments of the current run ----
    pc,            \* position of analyze_project
    full_analysis, \* args.full_analysis
    config_hash,   \* config_hash argument
    file_patterns, \* file_patterns argument
    concurrency,   \* self.concurrency
    \* ---- locals of analyze_project ----
    incremental,
    all_files,
    previous_analysis,
    previous_file_hashes,
    removed_files,
    config_changed,
    files_to_analyze,
    existing_results,
    new_single_file_results,
    processed_files,
    single_file_results,
    summary,
    \* ---- one analyze_single_file invocation per submitted file ----
    task,
    summary_invocations, \* number of calls of generate_summary in the run
    \* ---- bookkeeping of the exploration ----
    edits,        \* number of edits made by the environment
    \* ---- the backend ----
    backend_plan  \* [Files -> answers]: what it answers to each attempt on a
                  \* file when its answers are fixed beforehand

durable == <<disk, artifacts, snapshot, summary_md>>
arguments == <<full_analysis, config_hash, file_patterns, concurrency>>
diffLocals == <<incremental, all_files, previous_analysis, previous_file_hashes,
                removed_files, config_changed, files_to_analyze, existing_results>>
poolLocals == <<new_single_file_results, processed_files, task>>
summaryLocals == <<single_file_results, summary, summary_invocations>>
counters == <<edits>>
backend == <<backend_plan>>

vars == <<durable, pc, arguments, diffLocals, poolLocals, summaryLocals, counters,
          backend>>

(***************************************************************************)
(* Values                                                                  *)
(***************************************************************************)
\* no file at that place
NoFile == [kind |-> "nofile"]

\* a snapshot file that does not exist: load_previous_analysis returns {}
NoSnapshot == [exists |-> FALSE, configHash |-> None,
               singleFileResults |-> <<>>, summary |-> NoFile]

\* the snapshot file between the open(output_path, 'w') that empties it and
\* the end of json.dump: no JSON document can be read from it
Truncated == [exists |-> TRUE, configHash |-> None,
              singleFileResults |-> <<>>, summary |-> [kind |-> "truncated"]]

\* a snapshot file that holds a JSON document without singleFileResults
LacksRecords == [exists |-> TRUE, configHash |-> None,
                 singleFileResults |-> <<>>, summary |-> [kind |-> "no_records"]]

\* a snapshot file whose singleFileResults is not a list of records (a
\* number, null, a list of strings)
WrongRecordList == [exists |-> TRUE, configHash |-> None,
                    singleFileResults |-> <<>>,
                    summary |-> [kind |-> "wrong_records"]]

\* a snapshot file whose globalAnalysis section is not an object
WrongGlobalAnalysis == [exists |-> TRUE, configHash |-> None,
                        singleFileResults |-> <<>>,
                        summary |-> [kind |-> "wrong_global"]]

\* the local file_hash before line 46 has assigned it
Unbound == "unbound"

\* an analyze_single_file invocation that was not submitted: its position,
\* its locals retry_count and file_hash, the number of backend calls it
\* made, what the backend answered, the delays it slept, the texts it sent,
\* whether it left the loop by the fallback, and its result
NoTask == [state |-> "none", retry_count |-> 0, file_hash |-> Unbound,
           calls |-> 0, answers |-> <<>>, sleeps |-> <<>>, sent |-> <<>>,
           fallback |-> FALSE, result |-> NoFile]

\* the elements of a sequence
Range(s) == {s[i] : i \in DOMAIN s}

\* the orders in which a list built from a set may come out
Orderings(S) ==
    {s \in [1..Cardinality(S) -> S] : Range(s) = S}

\* the largest element of a non-empty set of integers
Max(S) == CHOOSE x \in S : \A y \in S : y <= x

\* Python truthiness of a string or None
Truthy(h) == h # None /\ h # ""

(***************************************************************************)
(* file_utils.py                                                           *)
(***************************************************************************)
\* get_file_hash: the digest of the bytes, "" when the file cannot be opened
get_file_hash(f) ==
    IF disk[relpath(f)] \in Contents THEN md5(disk[relpath(f)]) ELSE ""

\* read_file: the text, "" when the file cannot be opened
read_file(f) ==
    IF disk[relpath(f)] \in Contents THEN disk[relpath(f)] ELSE ""

\* read_file without its except clause: the failure of open() gets out
ReadFileRaisesOnFailure(f) == disk[relpath(f)] \notin Contents

\* read_file lets no exception out: its except clause returns "" (lines 26-28)
read_file_raises(f) == FALSE

\* glob.glob(os.path.join(folder_path, '**', pattern), recursive=True)
glob(pattern) ==
    CASE pattern = "*.py"   ->
            {f \in {"proj/a.py", "proj/b.py"} : disk[relpath(f)] # "absent"}
      [] pattern = "./a.py" ->
            {f \in {"proj/./a.py"} : disk[relpath(f)] # "absent"}

\* find_matching_files: the matches of all patterns, deduplicated as strings
find_matching_files(patterns) ==
    UNION {glob(pattern) : pattern \in patterns}

(***************************************************************************)
(* api.py                                                                  *)
(***************************************************************************)
\* what one call of chat_completion may do: return a plain text, return a
\* text wrapped in <think> / ``` markers, raise, or return no text (null)
BackendOutcomes == {"text", "fenced", "raise", "null"}
Failing(outcome) == outcome \in {"raise", "null"}

\* the text chat_completion returns for a request about `subject`
Response(outcome, subject) ==
    [kind |-> "text", about |-> subject, markup |-> (outcome = "fenced")]

\* clean_response: strips the <think> and ``` markers
clean_response(response) == [response EXCEPT !.markup = FALSE]

(***************************************************************************)
(* analyzer.py: load_previous_analysis, the diff                           *)
(***************************************************************************)
\* load_previous_analysis: the stored snapshot, {} when there is none or
\* when json.load fails on it (lines 206-208)
load_previous_analysis ==
    IF snapshot \in {Truncated, LacksRecords} THEN NoSnapshot ELSE snapshot

\* lines 289-303 walk the loaded document as a list of records and a nest of
\* objects: on another shape the for loop or a .get raises
DiffRaises(prev) == prev \in {WrongRecordList, WrongGlobalAnalysis}

\* previous_single_file_results
previous_single_file_results(prev) == prev.singleFileResults

\* lines 291-295: previous_file_hashes[filename] = filehash for every record
\* with a filename and a non-empty fileHash (a later record overwrites)
PreviousFileHashes(results) ==
    LET ok == {i \in DOMAIN results :
                 Truthy(results[i].filename) /\ Truthy(results[i].fileHash)}
    IN  [p \in {results[i].filename : i \in ok} |->
            results[Max({i \in ok : results[i].filename = p})].fileHash]

\* lines 297-299 outside the test of line 294: every recorded filename that
\* is no longer discovered
RemovedFilesOfEveryRecord(results, files) ==
    LET Gone(r) == r.filename \notin {relpath(f) : f \in Range(files)}
        gone == SelectSeq(results, Gone)
    IN  [i \in DOMAIN gone |-> gone[i].filename]

\* lines 297-299: the recorded filenames that are no longer discovered
RemovedFiles(results, files) ==
    LET Gone(r) == /\ Truthy(r.filename) /\ Truthy(r.fileHash)
                   /\ r.filename \notin {relpath(f) : f \in Range(files)}
        gone == SelectSeq(results, Gone)
    IN  [i \in DOMAIN gone |-> gone[i].filename]

\* the comparison of line 316 left out
ConfigChangedNever(cfg, previous_config_hash) == FALSE

\* line 316
ConfigChanged(cfg, previous_config_hash) ==
    Truthy(cfg) /\ Truthy(previous_config_hash) /\ cfg # previous_config_hash

\* line 335 with the hashes compared the wrong way round: equal means changed
NeedsAnalysisWhenEqual(f, hashes) ==
    \/ relpath(f) \notin DOMAIN hashes
    \/ hashes[relpath(f)] = get_file_hash(f)

\* line 335 without the comparison of the hashes
NeedsAnalysisNewOnly(f, hashes) ==
    relpath(f) \notin DOMAIN hashes

\* line 335: the file is new or changed
NeedsAnalysis(f, hashes) ==
    \/ relpath(f) \notin DOMAIN hashes
    \/ hashes[relpath(f)] # get_file_hash(f)

\* lines 339-342: the first previous record of that filename
FirstRecord(results, filename) ==
    results[CHOOSE i \in DOMAIN results :
                /\ results[i].filename = filename
                /\ \A j \in 1..(i-1) : results[j].filename # filename]

\* line 329: the incremental branch is taken
IncrementalBranch(inc, hashes, changed) ==
    inc /\ DOMAIN hashes # {} /\ ~changed

\* lines 329-359: files_to_analyze
FilesToAnalyze(files, inc, hashes, changed) ==
    IF IncrementalBranch(inc, hashes, changed)
    THEN LET Needs(f) == NeedsAnalysis(f, hashes) IN SelectSeq(files, Needs)
    ELSE files

\* lines 329-342 keeping the previous record of an unchanged file only when
\* its status is success
ExistingResultsOfSuccesses(files, results, inc, hashes, changed) ==
    IF IncrementalBranch(inc, hashes, changed)
    THEN LET Kept(f) == /\ ~NeedsAnalysis(f, hashes)
                        /\ \E i \in DOMAIN results :
                               results[i].filename = relpath(f)
             kept == SelectSeq(files, Kept)
             Succeeded(r) == r.status = "success"
         IN  SelectSeq([i \in DOMAIN kept |->
                           FirstRecord(results, relpath(kept[i]))], Succeeded)
    ELSE <<>>

\* lines 329-342: existing_results
ExistingResults(files, results, inc, hashes, changed) ==
    IF IncrementalBranch(inc, hashes, changed)
    THEN LET Kept(f) == /\ ~NeedsAnalysis(f, hashes)
                        /\ \E i \in DOMAIN results :
                               results[i].filename = relpath(f)
             kept == SelectSeq(files, Kept)
         IN  [i \in DOMAIN kept |-> FirstRecord(results, relpath(kept[i]))]
    ELSE <<>>

\* remove_analysis_file for every name of removed_files (lines 344-351, 361-368)
RemoveAnalysisFiles(removed) ==
    [p \in Paths |-> IF p \in Range(removed) THEN NoFile ELSE artifacts[p]]

(***************************************************************************)
(* Initial state: an arbitrary project tree, no previous run               *)
(***************************************************************************)
\* the answers of the backend are not fixed beforehand
NoPlan == <<>>

\* the project before its first run
FreshProject ==
    /\ disk \in [Paths -> FileStates]
    /\ disk["a.py"] = "v1"
    /\ artifacts = [p \in Paths |-> NoFile]
    /\ snapshot = NoSnapshot
    /\ summary_md = NoFile
    /\ pc = "idle"
    /\ full_analysis = FALSE
    /\ config_hash = None
    /\ file_patterns = {}
    /\ concurrency = 1
    /\ incremental = TRUE
    /\ all_files = <<>>
    /\ previous_analysis = NoSnapshot
    /\ previous_file_hashes = <<>>
    /\ removed_files = <<>>
    /\ config_changed = FALSE
    /\ files_to_analyze = <<>>
    /\ existing_results = <<>>
    /\ new_single_file_results = <<>>
    /\ processed_files = 0
    /\ single_file_results = <<>>
    /\ summary = NoFile
    /\ task = [f \in Files |-> NoTask]
    /\ summary_invocations = 0
    /\ edits = 0

Init == FreshProject /\ backend_plan = NoPlan

(***************************************************************************)
(* The environment edits, creates, deletes or locks a project file while   *)
(* no run is in progress                                                   *)
(***************************************************************************)
Edit(p, st) ==
    /\ pc = "idle"
    /\ edits < MaxEdits
    /\ st # disk[p]
    /\ disk' = [disk EXCEPT ![p] = st]
    /\ edits' = edits + 1
    /\ UNCHANGED <<artifacts, snapshot, summary_md, pc, arguments, diffLocals,
                   poolLocals, summaryLocals, backend>>

(***************************************************************************)
(* run_analysis (cli.py 412-452) calls analyze_project, which runs up to   *)
(* the submission of the tasks (analyzer.py 257-396)                       *)
(***************************************************************************)
StartRun(full, cfg, patterns, workers) ==
    /\ pc = "idle"
    /\ full \/ ~DiffRaises(load_previous_analysis)
    /\ \E files \in Orderings(find_matching_files(patterns)) :
        LET inc0     == ~full
            prev     == IF inc0 THEN load_previous_analysis ELSE NoSnapshot
            results  == previous_single_file_results(prev)
            hashes   == PreviousFileHashes(results)
            removed  == RemovedFiles(results, files)
            changed  == ConfigChanged(cfg, prev.configHash)
            inc      == IF changed THEN FALSE ELSE inc0
            todo     == FilesToAnalyze(files, inc, hashes, changed)
        IN  /\ full_analysis' = full
            /\ config_hash' = cfg
            /\ file_patterns' = patterns
            /\ concurrency' = workers
            /\ all_files' = files
            /\ previous_analysis' = prev
            /\ previous_file_hashes' = hashes
            /\ removed_files' = removed
            /\ config_changed' = changed
            /\ incremental' = inc
            /\ files_to_analyze' = todo
            /\ existing_results' =
                   ExistingResults(files, results, inc, hashes, changed)
            /\ artifacts' = RemoveAnalysisFiles(removed)
            /\ task' = [f \in Files |->
                          IF f \in Range(todo)
                          THEN [NoTask EXCEPT !.state = "submitted"]
                          ELSE NoTask]
    /\ new_single_file_results' = <<>>
    /\ processed_files' = 0
    /\ single_file_results' = <<>>
    /\ summary' = NoFile
    /\ summary_invocations' = 0
    /\ pc' = "pool"
    /\ UNCHANGED <<disk, snapshot, summary_md, counters, backend>>

\* an incremental run on a snapshot of the wrong shape: the exception of
\* lines 289-303 leaves analyze_project before anything is written, and
\* run_analysis prints it and returns 1 (cli.py 453-458)
RunFails ==
    /\ pc = "idle"
    /\ DiffRaises(load_previous_analysis)
    /\ pc' = "failed"
    /\ UNCHANGED <<durable, arguments, diffLocals, poolLocals, summaryLocals,
                   counters, backend>>

\* the user starts the tool again after a failed run
Retry ==
    /\ pc = "failed"
    /\ pc' = "idle"
    /\ UNCHANGED <<durable, arguments, diffLocals, poolLocals, summaryLocals,
                   counters, backend>>

\* the shapes a damaged snapshot file may have
CorruptSnapshots ==
    {Truncated, LacksRecords, WrongRecordList, WrongGlobalAnalysis}

\* the snapshot file is damaged between two runs
Corrupt(shape) ==
    /\ pc = "idle"
    /\ snapshot.exists
    /\ snapshot \notin CorruptSnapshots
    /\ snapshot' = shape
    /\ UNCHANGED <<disk, artifacts, summary_md, pc, arguments, diffLocals,
                   poolLocals, summaryLocals, counters, backend>>

(***************************************************************************)
(* analyze_single_file (analyzer.py 27-113)                                *)
(***************************************************************************)
\* the record returned on success (lines 70-75)
SuccessRecord(f, response, file_hash) ==
    [filename |-> relpath(f),
     content  |-> clean_response(response),
     fileHash |-> file_hash,
     status   |-> "success"]

\* the message built when the retries are used up (lines 90, 164): it states
\* the number of retries (the text of the exception is left out)
ErrorMessage(retry_count) ==
    [kind |-> "error", retries |-> retry_count]

\* the message of the fallback after the loop (lines 110, 176): no count
FallbackMessage == [kind |-> "error", retries |-> -1]

\* the record returned when the retries are used up (lines 97-102)
ErrorRecord(f, retry_count, file_hash) ==
    [filename |-> relpath(f),
     content  |-> ErrorMessage(retry_count),
     fileHash |-> file_hash,
     status   |-> "error"]

\* the record returned by the fallback after the loop (lines 108-113)
FallbackRecord(f) ==
    [filename |-> relpath(f),
     content  |-> FallbackMessage,
     fileHash |-> get_file_hash(f),
     status   |-> "error"]

\* the delay computed from the counter before its increment
WaitTimeBeforeIncrement(retry_count) == backoff_base ^ (retry_count - 1)

\* lines 80, 159: wait_time = 2 ** retry_count
WaitTime(retry_count) == backoff_base ^ retry_count

\* the tests of lines 39 and 79 with <= for <
RetryAgainInclusive(retry_count) == retry_count <= max_retries

\* lines 39, 79: retry_count < max_retries
RetryAgain(retry_count) == retry_count < max_retries

\* the loop test of line 39 on an invocation t that is entering the loop or
\* coming back from a sleep: another pass, or the fallback of lines 104-113
LoopTest(t, f) ==
    IF RetryAgain(t.retry_count)
    THEN [t EXCEPT !.state = "attempt"]
    ELSE [t EXCEPT !.state = "returned", !.fallback = TRUE,
                   !.result = FallbackRecord(f)]

\* the except clause of lines 76-102 on invocation t, whose pass has failed
HandleFailure(t, f) ==
    LET retry == t.retry_count + 1
    IN  IF RetryAgain(retry)
        THEN [t EXCEPT !.state = "sleep",
                       !.retry_count = retry,
                       !.sleeps = Append(@, WaitTime(retry))]
        ELSE IF t.file_hash = Unbound
             \* line 100 reads a local that was never assigned: the
             \* UnboundLocalError leaves analyze_single_file
             THEN [t EXCEPT !.state = "raised", !.retry_count = retry]
             ELSE [t EXCEPT !.state = "returned",
                            !.retry_count = retry,
                            !.result = ErrorRecord(f, retry, t.file_hash)]

\* one pass of the loop body (lines 40-102) on invocation t: read the file,
\* hash it, call the backend, clean the response; a failure is counted and
\* either backs off (state "sleep") or gives up
AttemptResult(t, f, outcome) ==
    IF read_file_raises(f)
    THEN HandleFailure(t, f)
    ELSE LET content  == read_file(f)
             hashed   == [t EXCEPT !.file_hash = get_file_hash(f)]
             response == Response(outcome, <<relpath(f), content>>)
             called   == [hashed EXCEPT !.calls = @ + 1,
                                        !.answers = Append(@, outcome),
                                        !.sent = Append(@, content)]
         IN  IF ~Failing(outcome)
             THEN [called EXCEPT
                     !.state = "returned",
                     !.result = SuccessRecord(f, response, called.file_hash)]
             ELSE HandleFailure(called, f)

\* the whole invocation from the loop test on, the backend answering the
\* successive calls by `outcomes`
RECURSIVE Invoke(_, _, _)
Invoke(t, f, outcomes) ==
    IF t.state \in {"returned", "raised"}
    THEN t
    ELSE LET tested == LoopTest(t, f)
         IN  IF tested.state = "returned" \/ outcomes = <<>>
             THEN tested
             ELSE Invoke(AttemptResult(tested, f, Head(outcomes)), f,
                         Tail(outcomes))

\* the answers of the backend to the successive calls of one invocation
OutcomeLists ==
    [1..max_retries -> {"text", "raise"}] \cup
    [1..max_retries -> {"fenced", "null"}]

(***************************************************************************)
(* The worker pool (analyzer.py 382-428)                                   *)
(***************************************************************************)
\* a pool whose workers take another task while their invocation sleeps
RunningAwake == {f \in Files : task[f].state \in {"entered", "attempt"}}

\* the invocations that occupy a worker of the ThreadPoolExecutor
Running == {f \in Files : task[f].state \in {"entered", "attempt", "sleep"}}

\* position of a file in files_to_analyze
IndexOf(f) == CHOOSE i \in DOMAIN files_to_analyze : files_to_analyze[i] = f

\* a free worker takes the oldest submitted task: analyze_single_file is
\* entered (lines 30-37)
StartTask(f) ==
    /\ pc = "pool"
    /\ task[f].state = "submitted"
    /\ Cardinality(Running) < concurrency
    /\ \A j \in 1..(IndexOf(f) - 1) :
           task[files_to_analyze[j]].state # "submitted"
    /\ task' = [task EXCEPT ![f].state = "entered"]
    /\ UNCHANGED <<durable, pc, arguments, diffLocals, new_single_file_results,
                   processed_files, summaryLocals, counters, backend>>

\* the invocation runs to its return; what stays of it is its result
AnalyzeSingleFile(f, outcomes) ==
    /\ pc = "pool"
    /\ task[f].state = "entered"
    /\ LET t == Invoke(task[f], f, outcomes)
       IN  task' = [task EXCEPT ![f] =
               [NoTask EXCEPT !.state = t.state, !.result = t.result]]
    /\ UNCHANGED <<durable, pc, arguments, diffLocals, new_single_file_results,
                   processed_files, summaryLocals, counters, backend>>

\* the same invocation, pass by pass: the loop is entered (line 39)
EnterLoop(f) ==
    /\ pc = "pool"
    /\ task[f].state = "entered"
    /\ task' = [task EXCEPT ![f] = LoopTest(task[f], f)]
    /\ UNCHANGED <<durable, pc, arguments, diffLocals, new_single_file_results,
                   processed_files, summaryLocals, counters, backend>>

\* one pass of the loop body (lines 40-102)
Attempt(f, outcome) ==
    /\ pc = "pool"
    /\ task[f].state = "attempt"
    /\ task' = [task EXCEPT ![f] = AttemptResult(task[f], f, outcome)]
    /\ UNCHANGED <<durable, pc, arguments, diffLocals, new_single_file_results,
                   processed_files, summaryLocals, counters, backend>>

\* time.sleep(wait_time) returns (line 88) and the loop test is made again
Wake(f) ==
    /\ pc = "pool"
    /\ task[f].state = "sleep"
    /\ task' = [task EXCEPT ![f] = LoopTest(task[f], f)]
    /\ UNCHANGED <<durable, pc, arguments, diffLocals, new_single_file_results,
                   processed_files, summaryLocals, counters, backend>>

\* an exception leaves analyze_single_file: the call of the progress display
\* at lines 36-37 stands outside the try block, so what it raises is raised
\* by future.result() at line 402
FutureRaises(f) ==
    /\ pc = "pool"
    /\ task[f].state = "entered"
    /\ task' = [task EXCEPT ![f].state = "raised"]
    /\ UNCHANGED <<durable, pc, arguments, diffLocals, new_single_file_results,
                   processed_files, summaryLocals, counters, backend>>

\* the message of the record built for a future that raised (line 412)
ProcessingFailedMessage == [kind |-> "error", retries |-> -2]

\* lines 410-415: the record built for a future that raised
ProcessingFailedRecord(f) ==
    [filename |-> relpath(f),
     content  |-> ProcessingFailedMessage,
     fileHash |-> get_file_hash(f),
     status   |-> "error"]

\* lines 401-415: the record of a finished future
FutureResult(f) ==
    IF task[f].state = "raised"
    THEN ProcessingFailedRecord(f)
    ELSE task[f].result

\* the loop of lines 398-428 without its except clause (lines 404-415): a
\* future that raised is counted and leaves no record
CollectWithoutHandler(f) ==
    /\ pc = "pool"
    /\ task[f].state \in {"returned", "raised"}
    /\ new_single_file_results' =
           IF task[f].state = "raised"
           THEN new_single_file_results
           ELSE Append(new_single_file_results, task[f].result)
    /\ processed_files' = processed_files + 1
    /\ task' = [task EXCEPT ![f] = [NoTask EXCEPT !.state = "collected"]]
    /\ UNCHANGED <<durable, pc, arguments, diffLocals, summaryLocals, counters, backend>>

\* as_completed hands a finished future to the main thread (lines 398-428)
Collect(f) ==
    /\ pc = "pool"
    /\ task[f].state \in {"returned", "raised"}
    /\ new_single_file_results' =
           Append(new_single_file_results, FutureResult(f))
    /\ processed_files' = processed_files + 1
    \* the invocation is over: its locals are gone
    /\ task' = [task EXCEPT ![f] = [NoTask EXCEPT !.state = "collected"]]
    /\ UNCHANGED <<durable, pc, arguments, diffLocals, summaryLocals, counters, backend>>

(***************************************************************************)
(* The merge (analyzer.py 430-436) and generate_summary (115-176)          *)
(***************************************************************************)
\* line 433
FilteredExistingResults ==
    IF incremental /\ ~config_changed
    THEN LET Stays(r) == r.filename \notin Range(removed_files)
         IN  SelectSeq(existing_results, Stays)
    ELSE <<>>

\* line 436
MergedResults == FilteredExistingResults \o new_single_file_results

\* lines 127-137 without the test of the status (line 133)
AllContentOfEveryRecord(results) ==
    [i \in DOMAIN results |-> <<results[i].filename, results[i].content>>]

\* lines 127-137: the contents of the records with status success
AllContent(results) ==
    LET Usable(r) == r.status = "success" /\ r.content # NoFile
        usable == SelectSeq(results, Usable)
    IN  [i \in DOMAIN usable |-> <<usable[i].filename, usable[i].content>>]

\* the retry loop of generate_summary (lines 139-176) from the loop test on:
\* c is the invocation so far, with the summary it returns once it has one
RECURSIVE SummaryLoop(_, _)
SummaryLoop(c, outcomes) ==
    IF ~(c.retry_count < summary_max_retries) \/ outcomes = <<>>
    THEN [c EXCEPT !.fallback = TRUE, !.summary = FallbackMessage]
    ELSE LET called == [c EXCEPT !.calls = @ + 1]
             retry  == c.retry_count + 1
         IN  IF ~Failing(Head(outcomes))
             THEN [called EXCEPT !.summary =
                     clean_response(Response(Head(outcomes), c.all_content))]
             ELSE IF retry < summary_max_retries
                  THEN SummaryLoop(
                         [called EXCEPT !.retry_count = retry,
                                        !.sleeps = Append(@, WaitTime(retry))],
                         Tail(outcomes))
                  ELSE [called EXCEPT !.retry_count = retry,
                                      !.summary = ErrorMessage(retry)]

\* generate_summary without its except clause: a failing call ends it with
\* no summary returned
GenerateSummaryWithoutHandler(results, outcomes) ==
    [calls |-> 1, retry_count |-> 0, sleeps |-> <<>>,
     all_content |-> AllContent(results), fallback |-> FALSE,
     summary |-> IF Failing(outcomes[1])
                 THEN NoFile
                 ELSE clean_response(Response(outcomes[1],
                                              AllContent(results)))]

\* generate_summary(single_file_results, ...): the invocation at its return,
\* with the summary it returns, the backend calls it made, the delays it
\* slept and the document it sent
generate_summary(results, outcomes) ==
    SummaryLoop([calls |-> 0, retry_count |-> 0, sleeps |-> <<>>,
                 all_content |-> AllContent(results), fallback |-> FALSE,
                 summary |-> NoFile],
                outcomes)

\* a summary made as soon as one record is there, the pool still working
SummarizeStreaming(outcomes) ==
    /\ pc = "pool"
    /\ new_single_file_results # <<>>
    /\ single_file_results' = MergedResults
    /\ summary' = generate_summary(MergedResults, outcomes).summary
    /\ summary_invocations' = summary_invocations + 1
    /\ pc' = "save"
    /\ UNCHANGED <<durable, arguments, diffLocals, poolLocals, counters, backend>>

\* a merge that keeps the stored summary when nothing was scheduled
SummarizeWhenScheduled(outcomes) ==
    /\ pc = "pool"
    /\ \A f \in Range(files_to_analyze) : task[f].state = "collected"
    /\ single_file_results' = MergedResults
    /\ IF files_to_analyze = <<>>
       THEN /\ summary' = previous_analysis.summary
            /\ summary_invocations' = summary_invocations
       ELSE /\ summary' = generate_summary(MergedResults, outcomes).summary
            /\ summary_invocations' = summary_invocations + 1
    /\ pc' = "save"
    /\ UNCHANGED <<durable, arguments, diffLocals, poolLocals, counters, backend>>

\* the pool is drained (the with block of line 383 is left): the results
\* are merged and generate_summary runs to its return (lines 430-444)
Summarize(outcomes) ==
    /\ pc = "pool"
    /\ \A f \in Range(files_to_analyze) : task[f].state = "collected"
    /\ single_file_results' = MergedResults
    /\ summary' = generate_summary(MergedResults, outcomes).summary
    /\ summary_invocations' = summary_invocations + 1
    /\ pc' = "save"
    /\ UNCHANGED <<durable, arguments, diffLocals, poolLocals, counters, backend>>

(***************************************************************************)
(* save_analysis_results (file_utils.py 43-99), called at analyzer.py 464  *)
(***************************************************************************)
\* lines 84-97: <filename>.md is written for every record, in order
WriteArtifacts(results) ==
    [p \in Paths |->
        IF \E i \in DOMAIN results : results[i].filename = p
        THEN results[Max({i \in DOMAIN results :
                            results[i].filename = p})].content
        ELSE artifacts[p]]

\* lines 53-70: the snapshot written to .codeaskdata
NewSnapshot ==
    [exists |-> TRUE,
     configHash |-> config_hash,
     singleFileResults |-> single_file_results,
     summary |-> summary]

\* analyze_project is left, by its return or by an exception: its arguments
\* and locals are gone
Leave(position) ==
    /\ pc' = position
    /\ full_analysis' = FALSE
    /\ config_hash' = None
    /\ file_patterns' = {}
    /\ concurrency' = 1
    /\ incremental' = TRUE
    /\ all_files' = <<>>
    /\ previous_analysis' = NoSnapshot
    /\ previous_file_hashes' = <<>>
    /\ removed_files' = <<>>
    /\ config_changed' = FALSE
    /\ files_to_analyze' = <<>>
    /\ existing_results' = <<>>
    /\ new_single_file_results' = <<>>
    /\ processed_files' = 0
    /\ single_file_results' = <<>>
    /\ summary' = NoFile
    /\ task' = [f \in Files |-> NoTask]
    /\ summary_invocations' = 0

\* analyze_project has returned
LocalsGone == Leave("idle")

\* save_analysis_results as a whole, then analyze_project returns
Save ==
    /\ pc = "save"
    /\ snapshot' = NewSnapshot
    /\ summary_md' = summary
    /\ artifacts' = WriteArtifacts(single_file_results)
    /\ LocalsGone
    /\ UNCHANGED <<disk, edits, backend>>

\* save_analysis_results step by step: open(output_path, 'w') empties the
\* snapshot file (line 53)
OpenSnapshot ==
    /\ pc = "save"
    /\ snapshot' = Truncated
    /\ pc' = "dump"
    /\ UNCHANGED <<disk, artifacts, summary_md, arguments, diffLocals,
                   poolLocals, summaryLocals, counters, backend>>

\* json.dump has written the document and the file is closed (lines 54-70)
DumpSnapshot ==
    /\ pc = "dump"
    /\ snapshot' = NewSnapshot
    /\ pc' = "markdown"
    /\ UNCHANGED <<disk, artifacts, summary_md, arguments, diffLocals,
                   poolLocals, summaryLocals, counters, backend>>

\* SUMMARY.md and the per-file artifacts are written (lines 73-97) and
\* analyze_project returns
WriteMarkdown ==
    /\ pc = "markdown"
    /\ summary_md' = summary
    /\ artifacts' = WriteArtifacts(single_file_results)
    /\ LocalsGone
    /\ UNCHANGED <<disk, snapshot, edits, backend>>

\* the process is terminated in the middle of a run: what is on disk stays
Kill ==
    /\ pc # "idle"
    /\ LocalsGone
    /\ UNCHANGED <<durable, edits, backend>>

(***************************************************************************)
(* The specifications                                                      *)
(***************************************************************************)
\* a run starts with arguments drawn from the small sets of the model
Start(lists) ==
    \E full \in BOOLEAN, cfg \in ConfigHashes, patterns \in lists,
       workers \in 1..MaxConcurrency :
        StartRun(full, cfg, patterns, workers)

\* successive runs, each invocation of analyze_single_file taken as a whole,
\* with patterns that match every file once
Next ==
    \/ \E p \in Paths, st \in FileStates : Edit(p, st)
    \/ Start(PatternLists)
    \/ \E f \in Files : StartTask(f)
    \/ \E f \in Files, outcomes \in OutcomeLists : AnalyzeSingleFile(f, outcomes)
    \/ \E f \in Files : Collect(f)
    \/ \E outcomes \in OutcomeLists : Summarize(outcomes)
    \/ Save

Spec == Init /\ [][Next]_vars

\* successive runs on an unchanging tree, with patterns that match a.py twice
NextGlob ==
    \/ Start(GlobPatternLists)
    \/ \E f \in Files : StartTask(f)
    \/ \E f \in Files, outcomes \in OutcomeLists : AnalyzeSingleFile(f, outcomes)
    \/ \E f \in Files : Collect(f)
    \/ \E outcomes \in OutcomeLists : Summarize(outcomes)
    \/ Save

\* the tree holds a.py alone
InitGlob == Init /\ disk["b.py"] = "absent"

SpecGlob == InitGlob /\ [][NextGlob]_vars

\* the pool of a first run, each invocation followed pass by pass
NextRunner ==
    \/ (~snapshot.exists /\ Start(PatternLists))
    \/ \E f \in Files : StartTask(f)
    \/ \E f \in Files : EnterLoop(f)
    \/ \E f \in Files, outcome \in BackendOutcomes : Attempt(f, outcome)
    \/ \E f \in Files : Wake(f)
    \/ \E f \in Files : Collect(f)

SpecRunner == Init /\ [][NextRunner]_vars

\* successive runs on an unchanging tree in which the progress display may
\* make an invocation raise
NextPool ==
    \/ Start(PatternLists)
    \/ \E f \in Files : StartTask(f)
    \/ \E f \in Files, outcomes \in OutcomeLists : AnalyzeSingleFile(f, outcomes)
    \/ \E f \in Files : FutureRaises(f)
    \/ \E f \in Files : Collect(f)
    \/ \E outcomes \in OutcomeLists : Summarize(outcomes)
    \/ Save

SpecPool == Init /\ [][NextPool]_vars

\* the answers a backend with fixed answers gives to the successive attempts
\* on one file
PlannedAnswers == [1..max_retries -> {"text", "raise"}]

\* a backend whose answer to each attempt on each file is fixed beforehand
BackendPlans == [Paths -> PlannedAnswers]

\* a backend that answers by the order in which the requests arrive
PlannedOutcomeByArrival(f, t) ==
    LET made == {<<g, i>> \in Files \X (1..max_retries) : i <= task[g].calls}
    IN  backend_plan[relpath(f)][(Cardinality(made) % max_retries) + 1]

\* what the backend answers to the next call of invocation t on file f
PlannedOutcome(f, t) == backend_plan[relpath(f)][t.calls + 1]

\* one pass of the loop body against the backend with fixed answers
PlannedAttempt(f) == Attempt(f, PlannedOutcome(f, task[f]))

\* a full run on the unchanging tree: the first one with a single worker,
\* the later ones with the largest pool
StartPlanned ==
    \E patterns \in PatternLists :
        StartRun(TRUE, None, patterns,
                 IF snapshot.exists THEN MaxConcurrency ELSE 1)

\* full runs on an unchanging tree against a backend with fixed answers, each
\* invocation followed pass by pass
NextPlan ==
    \/ StartPlanned
    \/ \E f \in Files : StartTask(f)
    \/ \E f \in Files : EnterLoop(f)
    \/ \E f \in Files : PlannedAttempt(f)
    \/ \E f \in Files : Wake(f)
    \/ \E f \in Files : Collect(f)
    \/ \E outcomes \in OutcomeLists : Summarize(outcomes)
    \/ Save

InitPlan == FreshProject /\ backend_plan \in BackendPlans

SpecPlan == InitPlan /\ [][NextPlan]_vars

\* the notifications of one pass of analyze_single_file to the progress sink:
\* lines 42-43, 49-50, 61-62, 67-68 inside the try block, and lines 82-83 or
\* 92-93 inside the except clause
SinkCalls == {"reading", "sending", "processing", "success", "handler"}

\* one pass of the loop body (lines 40-102) with a sink attached, whose
\* notification `call` raises: inside the try block the exception is taken
\* for a failed attempt, inside the except clause it leaves the invocation
SinkAttemptResult(t, f, outcome, call) ==
    LET content == read_file(f)
        hashed  == [t EXCEPT !.file_hash = get_file_hash(f)]
        called  == [hashed EXCEPT !.calls = @ + 1,
                                  !.answers = Append(@, outcome),
                                  !.sent = Append(@, content)]
    IN  CASE call = "reading" -> HandleFailure(t, f)
          [] call = "sending" -> HandleFailure(hashed, f)
          [] call \in {"processing", "success"} -> HandleFailure(called, f)
          [] call = "handler" ->
                 [called EXCEPT !.state = "raised",
                                !.retry_count = @ + 1]

\* a pass during which the sink raises when notified: the notifications
\* after the backend call are made only when the call has returned, those
\* of the except clause only when it has failed
SinkRaises(f, call) ==
    /\ pc = "pool"
    /\ task[f].state = "attempt"
    /\ call \in {"processing", "success"} => ~Failing(PlannedOutcome(f, task[f]))
    /\ call = "handler" => Failing(PlannedOutcome(f, task[f]))
    /\ task' = [task EXCEPT ![f] =
           SinkAttemptResult(task[f], f, PlannedOutcome(f, task[f]), call)]
    /\ UNCHANGED <<durable, pc, arguments, diffLocals, new_single_file_results,
                   processed_files, summaryLocals, counters, backend>>

\* the pool of a first run with a progress sink attached, against a backend
\* with fixed answers: every notification either returns or raises
NextSink ==
    \/ (~snapshot.exists /\ StartPlanned)
    \/ \E f \in Files : StartTask(f)
    \/ \E f \in Files : FutureRaises(f)
    \/ \E f \in Files : EnterLoop(f)
    \/ \E f \in Files : PlannedAttempt(f)
    \/ \E f \in Files, call \in SinkCalls : SinkRaises(f, call)
    \/ \E f \in Files : Wake(f)
    \/ \E f \in Files : Collect(f)

SpecSink == InitPlan /\ [][NextSink]_vars

\* a run with a single worker and no configuration file
StartSequential ==
    \E full \in BOOLEAN, patterns \in PatternLists :
        StartRun(full, None, patterns, 1)

\* successive runs on an unchanging tree, save_analysis_results followed
\* step by step, the process being killed at any point
NextSave ==
    \/ StartSequential
    \/ \E f \in Files : StartTask(f)
    \/ \E f \in Files, outcomes \in OutcomeLists : AnalyzeSingleFile(f, outcomes)
    \/ \E f \in Files : Collect(f)
    \/ \E outcomes \in OutcomeLists : Summarize(outcomes)
    \/ OpenSnapshot
    \/ DumpSnapshot
    \/ WriteMarkdown
    \/ Kill

SpecSave == Init /\ [][NextSave]_vars

\* values --concurrency and the configuration file may give: cli.py 404-410
\* pass any integer on as it is
ConfiguredConcurrency == {-1, 0, 1}

\* a run with a single worker or fewer
StartWorkers ==
    \E full \in BOOLEAN, patterns \in PatternLists,
       workers \in ConfiguredConcurrency :
        StartRun(full, None, patterns, workers)

\* line 383: ThreadPoolExecutor(max_workers=self.concurrency) raises
\* ValueError for a value below 1; the exception leaves analyze_project and
\* run_analysis returns 1 (cli.py 453-458)
PoolFails ==
    /\ pc = "pool"
    /\ files_to_analyze # <<>>
    /\ concurrency < 1
    /\ Leave("failed")
    /\ UNCHANGED <<durable, counters, backend>>

\* successive runs on an unchanging tree with a concurrency of 1 or less
NextWorkers ==
    \/ StartWorkers
    \/ PoolFails
    \/ Retry
    \/ \E f \in Files : StartTask(f)
    \/ \E f \in Files, outcomes \in OutcomeLists : AnalyzeSingleFile(f, outcomes)
    \/ \E f \in Files : Collect(f)
    \/ \E outcomes \in OutcomeLists : Summarize(outcomes)
    \/ Save

SpecWorkers == Init /\ [][NextWorkers]_vars

\* the first pass of an invocation, which the backend answers, while another
\* process writes the file between the read of line 45 and the read of
\* line 46: the content sent is the old one, the hash that of the new one
RacingAttempt(f, outcome, st) ==
    /\ pc = "pool"
    /\ task[f].state = "entered"
    /\ ~Failing(outcome)
    /\ edits < MaxEdits
    /\ st # disk[relpath(f)]
    /\ disk' = [disk EXCEPT ![relpath(f)] = st]
    /\ edits' = edits + 1
    /\ LET content  == read_file(f)
           file_hash == get_file_hash(f)'
           response == Response(outcome, <<relpath(f), content>>)
       IN  task' = [task EXCEPT ![f] =
               [NoTask EXCEPT !.state = "returned",
                              !.result = SuccessRecord(f, response, file_hash)]]
    /\ UNCHANGED <<artifacts, snapshot, summary_md, pc, arguments, diffLocals,
                   new_single_file_results, processed_files, summaryLocals,
                   backend>>

\* successive runs with a single worker on a tree that another process
\* writes while a file is being analysed
NextRace ==
    \/ StartSequential
    \/ \E f \in Files : StartTask(f)
    \/ \E f \in Files, outcomes \in OutcomeLists : AnalyzeSingleFile(f, outcomes)
    \/ \E f \in Files, outcome \in BackendOutcomes, st \in FileStates :
           RacingAttempt(f, outcome, st)
    \/ \E f \in Files : Collect(f)
    \/ \E outcomes \in OutcomeLists : Summarize(outcomes)
    \/ Save

SpecRace == Init /\ [][NextRace]_vars

\* successive runs with a single worker on an unchanging tree, the snapshot
\* file being damaged between runs
NextCorrupt ==
    \/ StartSequential
    \/ \E shape \in CorruptSnapshots : Corrupt(shape)
    \/ RunFails
    \/ Retry
    \/ \E f \in Files : StartTask(f)
    \/ \E f \in Files, outcomes \in OutcomeLists : AnalyzeSingleFile(f, outcomes)
    \/ \E f \in Files : Collect(f)
    \/ \E outcomes \in OutcomeLists : Summarize(outcomes)
    \/ Save

SpecCorrupt == Init /\ [][NextCorrupt]_vars

\* the steps of a started run: the executor runs every submitted task, every
\* backend call returns or fails, as_completed yields every future, and the
\* summary and the save follow in the same thread
RunSteps ==
    \/ \E f \in Files : StartTask(f)
    \/ \E f \in Files, outcomes \in OutcomeLists : AnalyzeSingleFile(f, outcomes)
    \/ \E f \in Files : Collect(f)
    \/ \E outcomes \in OutcomeLists : Summarize(outcomes)
    \/ Save

\* SpecCorrupt where a started run is never abandoned
SpecCorruptFair == SpecCorrupt /\ WF_vars(RunSteps)

(***************************************************************************)
(* Vocabulary of the properties                                            *)
(***************************************************************************)
\* analyze_project is between its diff and the call of save_analysis_results
InRun == pc \in {"pool", "save"}

\* the project-relative paths of the discovered files
DiscoveredPaths == {relpath(f) : f \in Range(all_files)}

\* the three sets of the diff
Reuse == {existing_results[i].filename : i \in DOMAIN existing_results}
Schedule == {relpath(f) : f \in Range(files_to_analyze)}
Remove == Range(removed_files)

\* the paths a snapshot holds a record for, and the records of a path
RecordedPaths(snap) == {r.filename : r \in Range(snap.singleFileResults)}
RecordsOf(snap, p) == {r \in Range(snap.singleFileResults) : r.filename = p}

\* the file holds a text, whose digest is its current content hash
Readable(f) == disk[relpath(f)] \in Contents

\* the run was asked to be incremental and found a previous snapshot
LoadedPrevious == ~full_analysis /\ previous_analysis.exists

\* analyze_single_file was never entered for the file in this run
NeverInvoked(f) == task[f].state = "none"

(***************************************************************************)
(* The diff (Spec)                                                         *)
(***************************************************************************)
\* the file is byte-identical to what the previous snapshot recorded
Unchanged(f, snap) ==
    /\ Readable(f)
    /\ \E r \in RecordsOf(snap, relpath(f)) :
           r.fileHash = md5(disk[relpath(f)])

\* C1: in an incremental run that loaded a previous snapshot and whose
\* configuration fingerprint is the stored one, every discovered file whose
\* content hash equals the fileHash recorded for its path is in Reuse, is not
\* scheduled, and analyze_single_file (hence the backend) is never entered
\* for any spelling of its path.
C1_UnchangedFilesAreReused ==
    (InRun /\ LoadedPrevious /\ config_hash = previous_analysis.configHash) =>
        \A f \in Range(all_files) :
            Unchanged(f, previous_analysis) =>
                /\ relpath(f) \in Reuse
                /\ f \notin Range(files_to_analyze)
                /\ \A g \in Files : relpath(g) = relpath(f) => NeverInvoked(g)

\* a run past its pool that reused one unchanged file and analysed another
C1_Witness ==
    /\ pc = "save" /\ LoadedPrevious
    /\ config_hash = previous_analysis.configHash
    /\ \E f \in Range(all_files) :
          Unchanged(f, previous_analysis) /\ relpath(f) \in Reuse
    /\ new_single_file_results # <<>>

\* C2: in an incremental run, every discovered file that has no record in
\* the previous snapshot, or whose current hash differs from the fileHash
\* recorded for its path, is scheduled and is not in Reuse.
C2_ChangedOrNewFilesAreScheduled ==
    (InRun /\ ~full_analysis) =>
        \A f \in Range(all_files) :
            (\/ RecordsOf(snapshot, relpath(f)) = {}
             \/ \E r \in RecordsOf(snapshot, relpath(f)) :
                    r.fileHash # get_file_hash(f))
            => /\ f \in Range(files_to_analyze)
               /\ relpath(f) \notin Reuse

\* an incremental run that schedules a file whose recorded hash differs from
\* its current one, next to a file it reuses
C2_Witness ==
    /\ InRun /\ ~full_analysis
    /\ \E f \in Range(files_to_analyze) :
          \E r \in RecordsOf(snapshot, relpath(f)) :
              Truthy(r.fileHash) /\ r.fileHash # get_file_hash(f)
    /\ Reuse # {}

\* both fingerprints are present and they differ
FingerprintsDiffer ==
    /\ Truthy(config_hash) /\ Truthy(snapshot.configHash)
    /\ config_hash # snapshot.configHash

\* C3: when the configuration fingerprint given to the run differs from the
\* one stored in the previous snapshot, Reuse is empty, every discovered file
\* is scheduled and no previous record enters the merged result.
C3_ConfigChangeForcesFullSchedule ==
    (InRun /\ snapshot.exists /\ FingerprintsDiffer) =>
        /\ existing_results = <<>>
        /\ files_to_analyze = all_files
        /\ pc = "save" => single_file_results = new_single_file_results

\* an incremental run with a changed configuration fingerprint on a tree
\* whose files are all byte-identical to the previous run
C3_Witness ==
    /\ pc = "save" /\ ~full_analysis /\ snapshot.exists /\ FingerprintsDiffer
    /\ Cardinality(Range(all_files)) = 2
    /\ \A f \in Range(all_files) : Unchanged(f, snapshot)

\* C4: in a run that loads a previous snapshot, every path recorded in it
\* and no longer discovered is in removed_files, its artifact <path>.md is
\* deleted, and the new snapshot holds no record for it.
C4_VanishedFilesArePruned ==
    (InRun /\ LoadedPrevious) =>
        \A p \in RecordedPaths(previous_analysis) \ DiscoveredPaths :
            /\ p \in Remove
            /\ artifacts[p] = NoFile
            /\ pc = "save" => RecordsOf(NewSnapshot, p) = {}

\* C5: in a full run asked for by the caller while a previous snapshot
\* exists, Reuse is empty, every discovered file is scheduled, and the
\* artifact of every recorded path that is no longer discovered is deleted.
C5_FullRunStillPrunes ==
    (InRun /\ full_analysis /\ snapshot.exists) =>
        /\ existing_results = <<>>
        /\ files_to_analyze = all_files
        /\ \A p \in RecordedPaths(snapshot) \ DiscoveredPaths :
               artifacts[p] = NoFile

\* the previous snapshot records exactly these paths with these hashes
Recorded(hashes) ==
    /\ snapshot.exists
    /\ RecordedPaths(snapshot) = DOMAIN hashes
    /\ \A r \in Range(snapshot.singleFileResults) :
           r.fileHash = hashes[r.filename]

\* C6: the diff yields three pairwise disjoint sets, Reuse and Schedule
\* together are the discovered paths, and Remove is the recorded paths that
\* are not discovered; previous {a.py: H1} on the tree {a.py: H1, b.py}
\* gives Reuse = {a.py}, Schedule = {b.py}, Remove = {}, and previous
\* {a.py: H1, b.py: H2} on the tree {a.py: H1} gives Reuse = {a.py},
\* Schedule = {}, Remove = {b.py} (b.py standing for the c.py of the
\* scenario).
C6_DiffPartition ==
    InRun =>
        /\ Reuse \cap Schedule = {}
        /\ Reuse \cap Remove = {}
        /\ Schedule \cap Remove = {}
        /\ Reuse \cup Schedule = DiscoveredPaths
        /\ Remove = RecordedPaths(snapshot) \ DiscoveredPaths
        /\ ( /\ LoadedPrevious /\ config_hash = snapshot.configHash
             /\ Recorded([p \in {"a.py"} |-> "H1"])
             /\ disk["a.py"] = "v1" /\ disk["b.py"] # "absent" )
           => (Reuse = {"a.py"} /\ Schedule = {"b.py"} /\ Remove = {})
        /\ ( /\ LoadedPrevious /\ config_hash = snapshot.configHash
             /\ Recorded([p \in {"a.py", "b.py"} |->
                            IF p = "a.py" THEN "H1" ELSE "H2"])
             /\ disk["a.py"] = "v1" /\ disk["b.py"] = "absent" )
           => (Reuse = {"a.py"} /\ Schedule = {} /\ Remove = {"b.py"})

(***************************************************************************)
(* The merge (SpecGlob)                                                    *)
(***************************************************************************)
\* the number of records of a path in a list of records
Occurrences(results, p) ==
    Cardinality({i \in DOMAIN results : results[i].filename = p})

\* C7: after the merge the records of the new snapshot are the previous
\* records of the Reuse set, verbatim, followed by the records the pool
\* produced for the Schedule set; every discovered path has exactly one
\* record and no two records share a path.
C7_MergedRecordsArePartitionedAndUnique ==
    pc = "save" =>
        /\ NewSnapshot.singleFileResults =
               existing_results \o new_single_file_results
        /\ Range(existing_results) \subseteq Range(snapshot.singleFileResults)
        /\ {r.filename : r \in Range(new_single_file_results)} = Schedule
        /\ \A p \in DiscoveredPaths :
               Occurrences(NewSnapshot.singleFileResults, p) = 1
        /\ \A p \in Paths :
               Occurrences(NewSnapshot.singleFileResults, p) <= 1

(***************************************************************************)
(* analyze_single_file, pass by pass (SpecRunner)                          *)
(***************************************************************************)
\* the backend failed the first k calls of the invocation and answered the
\* next one
FailedThenAnswered(t, k) ==
    /\ Len(t.answers) >= k + 1
    /\ \A i \in 1..k : Failing(t.answers[i])
    /\ ~Failing(t.answers[k + 1])

\* the backend failed the first three calls of the invocation
FailedThrice(t) ==
    /\ Len(t.answers) >= 3
    /\ \A i \in 1..3 : Failing(t.answers[i])

\* C8: for k in {0, 1, 2}, an invocation whose first k backend calls fail
\* and whose call k+1 succeeds has returned a record with status success,
\* has called the backend exactly k+1 times and no more, and has slept
\* exactly k times, 2 then 4.
C8_SuccessAfterFailures ==
    \A f \in Files, k \in 0..2 :
        FailedThenAnswered(task[f], k) =>
            /\ task[f].state = "returned"
            /\ task[f].result.status = "success"
            /\ task[f].calls = k + 1
            /\ Len(task[f].answers) = k + 1
            /\ task[f].sleeps = SubSeq(<<2, 4>>, 1, k)

\* an invocation that failed twice and then succeeded
C8_Witness ==
    \E f \in Files :
        /\ FailedThenAnswered(task[f], 2)
        /\ task[f].state = "returned"
        /\ task[f].sleeps = <<2, 4>>

\* C9: the retry counter stays within 0..3 and the fallback after the loop
\* is never taken; an invocation whose three backend calls fail has called
\* the backend exactly 3 times and has returned a record with status error
\* whose content states 3 retries.
C9_ErrorAfterThreeFailures ==
    \A f \in Files :
        /\ task[f].retry_count \in 0..3
        /\ ~task[f].fallback
        /\ FailedThrice(task[f]) =>
               /\ task[f].state = "returned"
               /\ task[f].calls = 3
               /\ Len(task[f].answers) = 3
               /\ task[f].result.status = "error"
               /\ task[f].result.content = [kind |-> "error", retries |-> 3]

\* an invocation that failed three times and returned
C9_Witness ==
    \E f \in Files :
        /\ FailedThrice(task[f])
        /\ task[f].state = "returned"
        /\ task[f].result.status = "error"

\* C10: no exception leaves analyze_single_file: an invocation that is over
\* has returned a record for its file with status success or error, and an
\* invocation that has used up its retries has returned an Error record,
\* on readable and on unreadable files alike.
C10_NoExceptionEscapes ==
    \A f \in Files :
        /\ task[f].state # "raised"
        /\ task[f].state = "returned" =>
               /\ task[f].result.filename = relpath(f)
               /\ task[f].result.status \in {"success", "error"}
        /\ task[f].retry_count >= max_retries =>
               /\ task[f].state = "returned"
               /\ task[f].result.status = "error"

\* an invocation on an unreadable file that used up its retries and returned
C10_Witness ==
    \E f \in Files :
        /\ ~Readable(f)
        /\ task[f].retry_count = max_retries
        /\ task[f].state = "returned"
        /\ task[f].result.status = "error"

\* C11: an attempt of analyze_single_file on a file that cannot be read is
\* a failed attempt: the backend is not called with the content of the
\* failed read, no fingerprint of it is kept, and the invocation returns,
\* after its 3 attempts, an Error record and never a Success record.
C11_UnreadableFileIsAFailedAttempt ==
    \A f \in Files :
        ~Readable(f) =>
            /\ task[f].calls = 0
            /\ task[f].file_hash = Unbound
            /\ task[f].state = "returned" =>
                   /\ task[f].result.status = "error"
                   /\ task[f].retry_count = max_retries

(***************************************************************************)
(* The worker pool (SpecPool)                                              *)
(***************************************************************************)
\* the records the pool has appended for a scheduled file
RecordsFor(f) ==
    {i \in DOMAIN new_single_file_results :
        new_single_file_results[i].filename = relpath(f)}

\* C12: under every interleaving of the completions, the pool appends one
\* record and counts one processed file per finished invocation, so that
\* after the pool new_single_file_results holds exactly one record per
\* scheduled file and processed_files is the number of scheduled files; a
\* future that raised contributes one record with status error for its path.
C12_OneRecordPerTask ==
    /\ [](InRun =>
            /\ processed_files = Len(new_single_file_results)
            /\ \A f \in Range(files_to_analyze) :
                   Cardinality(RecordsFor(f)) =
                       IF task[f].state = "collected" \/ pc = "save"
                       THEN 1 ELSE 0
            /\ pc = "save" =>
                   /\ Len(new_single_file_results) = Len(files_to_analyze)
                   /\ processed_files = Len(files_to_analyze))
    /\ [][\A f \in Files :
            (task[f].state = "raised" /\ task'[f].state = "collected") =>
                /\ Len(new_single_file_results') =
                       Len(new_single_file_results) + 1
                /\ LET r == new_single_file_results'[
                                Len(new_single_file_results')]
                   IN  r.filename = relpath(f) /\ r.status = "error"]_vars

\* two invocations were in progress together, one raised, and the records
\* came in another order than the tasks were submitted
C12_Witness ==
    /\ pc = "save" /\ concurrency = 2
    /\ Len(files_to_analyze) = 2
    /\ \E i \in DOMAIN new_single_file_results :
           new_single_file_results[i].content = ProcessingFailedMessage
    /\ new_single_file_results[1].filename = relpath(files_to_analyze[2])

(***************************************************************************)
(* The bound of the pool (SpecRunner)                                      *)
(***************************************************************************)
\* the invocations that were entered and have neither returned nor raised
InProgress ==
    {f \in Files :
        task[f].state \notin
            {"none", "submitted", "returned", "raised", "collected"}}

\* C13: at every moment of a run the number of analyze_single_file
\* invocations in progress, those that sleep between two attempts included,
\* is at most the configured concurrency; with concurrency 1 no two
\* invocations overlap.
C13_PoolIsBounded ==
    InRun =>
        /\ Cardinality(InProgress) <= concurrency
        /\ concurrency = 1 =>
               \A f, g \in InProgress : f = g

\* the single worker sleeps between two attempts while the next task waits
C13_Witness ==
    /\ pc = "pool" /\ concurrency = 1
    /\ \E f, g \in Files :
           /\ task[f].state = "sleep"
           /\ task[g].state = "submitted"

(***************************************************************************)
(* Concurrency does not change the result (SpecPlan)                       *)
(***************************************************************************)
\* C14: with the answer of the backend fixed for every file and attempt, a
\* run with several workers ends with the same set of merged records,
\* whatever their order, as the run with a single worker on the same inputs,
\* whose records are those of the stored snapshot.
C14_ConcurrencyDoesNotChangeTheRecords ==
    (pc = "save" /\ snapshot.exists) =>
        Range(single_file_results) = Range(snapshot.singleFileResults)

\* a run with two workers on two files, one of which had failing attempts,
\* whose records came in another order than those of the single-worker run
C14_Witness ==
    /\ pc = "save" /\ snapshot.exists /\ concurrency = 2
    /\ Len(single_file_results) = 2
    /\ single_file_results # snapshot.singleFileResults
    /\ \E r \in Range(single_file_results) : r.status = "error"
    /\ \E r \in Range(single_file_results) : r.status = "success"

(***************************************************************************)
(* The order of the stages (SpecPlan)                                      *)
(***************************************************************************)
\* every scheduled task has a record and no invocation is in progress
PoolDrained ==
    /\ InProgress = {}
    /\ \A f \in Range(files_to_analyze) :
           task[f].state = "collected" /\ RecordsFor(f) # {}

\* C15: generate_summary begins only when every scheduled task has its
\* record and no invocation is running or sleeping, and the snapshot is
\* written only when generate_summary has returned, with the summary it
\* returned.
C15_StagesAreOrdered ==
    /\ [](summary_invocations > 0 => PoolDrained)
    /\ [][summary_invocations' > summary_invocations => PoolDrained]_vars
    /\ [][snapshot' # snapshot =>
            /\ pc = "save" /\ summary_invocations = 1
            /\ summary # NoFile
            /\ snapshot'.summary = summary]_vars

\* generate_summary has returned in a run whose two invocations are over, one
\* of them after its backoff sleeps
C15_Witness ==
    /\ pc = "save" /\ summary_invocations = 1 /\ summary # NoFile
    /\ Len(files_to_analyze) = 2
    /\ \E r \in Range(new_single_file_results) :
           r.content = ErrorMessage(max_retries)

(***************************************************************************)
(* Persistence (SpecSave, Spec)                                            *)
(***************************************************************************)
\* C16: at every moment, while save_analysis_results runs and after the
\* process has died in it included, the snapshot file holds a complete
\* snapshot: every step leaves it as it was or replaces it by the complete
\* new snapshot, and it is never a partially written file.
C16_SnapshotIsWrittenAtomically ==
    /\ [](snapshot # Truncated)
    /\ [][snapshot' = snapshot \/ snapshot' = NewSnapshot]_vars

\* the last record a snapshot holds for a path
LastRecord(snap, p) ==
    snap.singleFileResults[
        Max({i \in DOMAIN snap.singleFileResults :
                snap.singleFileResults[i].filename = p})]

\* C17: no step of a run before save_analysis_results changes the durable
\* state: the snapshot file stays as it is and the artifact of every record
\* of the previous snapshot stays as the previous run wrote it, so that a
\* run terminated before its save leaves the previous snapshot true.
C17_NothingDurableChangesBeforeTheSave ==
    /\ [][pc' \in {"pool", "save"} =>
            /\ snapshot' = snapshot
            /\ \A p \in RecordedPaths(snapshot) : artifacts'[p] = artifacts[p]]_vars
    /\ [](InRun =>
            \A p \in RecordedPaths(snapshot) :
                artifacts[p] = LastRecord(snapshot, p).content)

(***************************************************************************)
(* generate_summary (Spec)                                                 *)
(***************************************************************************)
\* the backend fails every call of the list
AllFailing(outcomes) == \A i \in DOMAIN outcomes : Failing(outcomes[i])

\* C18: when the backend fails the 3 calls of generate_summary, it returns
\* the error message that states 3 retries, after exactly 3 calls and not by
\* its fallback; the run goes on to save_analysis_results, and the snapshot
\* written holds every record of the merged set and that message as summary.
C18_SummaryFailureDoesNotFailTheRun ==
    /\ [][\A outcomes \in OutcomeLists :
            (AllFailing(outcomes) /\ Summarize(outcomes)) =>
                /\ summary' = ErrorMessage(summary_max_retries)
                /\ generate_summary(MergedResults, outcomes).calls = 3
                /\ ~generate_summary(MergedResults, outcomes).fallback
                /\ pc' = "save"]_vars
    /\ []((pc = "save" /\ summary = ErrorMessage(summary_max_retries)) =>
            ENABLED Save)
    /\ [][(pc = "save" /\ pc' = "idle") =>
            /\ snapshot'.exists
            /\ snapshot'.summary = summary
            /\ summary_md' = summary
            /\ snapshot'.singleFileResults =
                   FilteredExistingResults \o new_single_file_results]_vars

\* a snapshot was written with per-file records and the error message of
\* generate_summary as its summary
C18_Witness ==
    /\ pc = "idle"
    /\ snapshot.exists
    /\ snapshot.summary = ErrorMessage(summary_max_retries)
    /\ Len(snapshot.singleFileResults) = 2
    /\ summary_md = ErrorMessage(summary_max_retries)

\* the document holds the content of every record with status success and
\* of no record with status error
HoldsTheSuccessesOnly(document, results) ==
    \A r \in Range(results) :
        /\ r.status = "success" =>
               <<r.filename, r.content>> \in Range(document)
        /\ r.status = "error" =>
               \A i \in DOMAIN document : document[i][2] # r.content

\* C19: the document generate_summary sends to the backend holds the content
\* of every record of the merged set, reused or freshly analysed, whose
\* status is success and of no record whose status is error; whatever the
\* records are, the backend is called for the summary.
C19_SummaryInputIsTheSuccessRecords ==
    /\ pc = "pool" =>
           \A outcomes \in OutcomeLists :
               LET g == generate_summary(MergedResults, outcomes)
               IN  /\ HoldsTheSuccessesOnly(g.all_content, MergedResults)
                   /\ g.calls >= 1
    /\ (pc = "save" /\ summary.kind = "text") =>
           /\ HoldsTheSuccessesOnly(summary.about, single_file_results)
           /\ single_file_results =
                  FilteredExistingResults \o new_single_file_results

\* a summary was made from a reused success record while the freshly
\* analysed file gave an error record
C19_Witness ==
    /\ pc = "save" /\ summary.kind = "text"
    /\ \E r \in Range(existing_results) : r.status = "success"
    /\ \E r \in Range(new_single_file_results) : r.status = "error"
    /\ Len(summary.about) = 1

(***************************************************************************)
(* Idempotence (Spec)                                                      *)
(***************************************************************************)
\* C20: an incremental run that follows a run on the same tree, which
\* nothing has edited since, with the same file patterns and the same
\* configuration fingerprint, schedules no file, whatever the outcome of the
\* tasks of the run before.
C20_SecondRunSchedulesNothing ==
    (/\ InRun /\ ~full_analysis
     /\ snapshot.exists /\ edits = 0
     /\ config_hash = snapshot.configHash) =>
        files_to_analyze = <<>>

(***************************************************************************)
(* A damaged snapshot (SpecCorrupt)                                        *)
(***************************************************************************)
\* C21: a previous snapshot file that cannot be parsed, lacks
\* singleFileResults, or holds a record list or a globalAnalysis section of
\* the wrong type never makes a run fail: an incremental run that finds it
\* reuses nothing and schedules every discovered file.
C21_DamagedSnapshotIsNoSnapshot ==
    /\ pc # "failed"
    /\ (InRun /\ ~full_analysis /\ snapshot \in CorruptSnapshots) =>
           /\ existing_results = <<>>
           /\ files_to_analyze = all_files
           /\ removed_files = <<>>

\* the snapshot on disk is the result of a completed run: it holds exactly
\* one record for every file the patterns match
Persisted ==
    /\ snapshot.exists
    /\ snapshot \notin CorruptSnapshots
    /\ \A patterns \in PatternLists : \A f \in find_matching_files(patterns) :
           Occurrences(snapshot.singleFileResults, relpath(f)) = 1

\* C22: every backend call returning or failing, a run that has discovered
\* its files never crashes and eventually returns with the snapshot
\* persisted, one record per discovered file, whichever backend calls fail.
C22_EveryRunReachesPersistence ==
    /\ [](pc # "failed")
    /\ (pc # "idle") ~> (pc = "idle" /\ Persisted)

(***************************************************************************)
(* The written documents (SpecGlob)                                        *)
(***************************************************************************)
\* C23: once save_analysis_results has completed, every record of the new
\* snapshot, success or error, reused or fresh, has its <path>.md holding
\* that record's content, and SUMMARY.md holds the summary of the run.
C23_EveryRecordHasItsDocument ==
    (pc = "idle" /\ snapshot.exists) =>
        /\ \A i \in DOMAIN snapshot.singleFileResults :
               artifacts[snapshot.singleFileResults[i].filename]
                   = snapshot.singleFileResults[i].content
        /\ summary_md = snapshot.summary

(***************************************************************************)
(* The progress sink (SpecSink)                                            *)
(***************************************************************************)
\* the invocation on file f with tui = None against the same backend
WithoutSink(f) ==
    Invoke([NoTask EXCEPT !.state = "entered"], f,
           [i \in 1..max_retries |-> backend_plan[relpath(f)][i]])

\* C24: an invocation with a progress sink attached ends as the invocation
\* without a sink does, whatever the sink does when notified: it returns the
\* same record after the same number of backend calls.
C24_SinkDoesNotChangeTheResult ==
    \A f \in Files :
        task[f].state \in {"returned", "raised"} =>
            /\ task[f].state = WithoutSink(f).state
            /\ task[f].result = WithoutSink(f).result
            /\ task[f].calls = WithoutSink(f).calls

(***************************************************************************)
(* The summary of every run (Spec)                                         *)
(***************************************************************************)
\* C25: generate_summary is invoked exactly once in every run that reaches
\* the merge, never before, and over the whole merged record list (the
\* reused records followed by the fresh ones), also when nothing was
\* scheduled.
C25_SummaryIsMadeOncePerRun ==
    /\ [](pc = "pool" => summary_invocations = 0)
    /\ [](pc = "save" =>
            /\ summary_invocations = 1
            /\ single_file_results = MergedResults
            /\ \E outcomes \in OutcomeLists :
                   summary = generate_summary(single_file_results,
                                              outcomes).summary)
    /\ [][(pc = "pool" /\ pc' = "save") =>
             summary_invocations' = summary_invocations + 1]_vars

\* an incremental run that scheduled nothing and reused a record has made
\* its one summary
C25_Witness ==
    /\ pc = "save" /\ summary_invocations = 1
    /\ files_to_analyze = <<>>
    /\ existing_results # <<>>
    /\ summary # NoFile

(***************************************************************************)
(* A configuration that appears or disappears (Spec)                       *)
(***************************************************************************)
\* C26: in an incremental run on a previous snapshot, a configuration
\* fingerprint given where none was stored, or none given where one was
\* stored, counts as a changed configuration: nothing is reused and every
\* discovered file is scheduled.
C26_AppearingConfigIsAChange ==
    (InRun /\ ~full_analysis /\ snapshot.exists
           /\ Truthy(config_hash) # Truthy(snapshot.configHash)) =>
        /\ existing_results = <<>>
        /\ files_to_analyze = all_files

(***************************************************************************)
(* A file written while it is analysed (SpecRace)                          *)
(***************************************************************************)
\* the bytes a success record is an analysis of: the content that was sent
SentFor(r) == r.content.about[2]

\* C27: the fileHash of a fresh success record is the fingerprint of the
\* bytes that were sent to the backend, also when the file is written during
\* the attempt, or else the file is scheduled again: a success record that
\* the next incremental run reuses carries the fingerprint of the bytes it
\* is an analysis of.
C27_ReusedHashIsOfTheBytesSent ==
    (InRun /\ ~full_analysis) =>
        \A i \in DOMAIN existing_results :
            existing_results[i].status = "success" =>
                /\ SentFor(existing_results[i]) \in Contents
                /\ existing_results[i].fileHash
                       = md5(SentFor(existing_results[i]))

(***************************************************************************)
(* A concurrency below 1 (SpecWorkers)                                     *)
(***************************************************************************)
\* C28: whatever concurrency is configured, values below 1 included, the
\* pool of a run that has files to analyse has at least one worker and the
\* run does not fail.
C28_PoolHasAWorker ==
    /\ pc # "failed"
    /\ (pc = "pool" /\ files_to_analyze # <<>>) => concurrency >= 1

(***************************************************************************)
(* Error records and records without a hash in the diff (Spec)             *)
(***************************************************************************)
\* the error records the previous snapshot holds for a file that is
\* byte-identical to what they recorded
UnchangedErrors(f) ==
    {r \in RecordsOf(previous_analysis, relpath(f)) :
        /\ r.status = "error"
        /\ Readable(f)
        /\ r.fileHash = md5(disk[relpath(f)])}

\* C29: in an incremental run whose configuration fingerprint is the stored
\* one, a file whose previous record is an error record with the file's
\* current hash is reused like any other: it is not scheduled, its
\* invocation is never entered, and the error record is carried into the
\* merged records of the new snapshot.
C29_ErrorRecordsAreReused ==
    (InRun /\ LoadedPrevious /\ config_hash = previous_analysis.configHash) =>
        \A f \in Range(all_files) : \A r \in UnchangedErrors(f) :
            /\ r \in Range(existing_results)
            /\ f \notin Range(files_to_analyze)
            /\ NeverInvoked(f)
            /\ pc = "save" => r \in Range(single_file_results)

\* an incremental run past its merge that carries the error record of an
\* unchanged file
C29_Witness ==
    /\ pc = "save" /\ LoadedPrevious
    /\ config_hash = previous_analysis.configHash
    /\ \E f \in Range(all_files) : \E r \in UnchangedErrors(f) :
           /\ r \in Range(single_file_results)
           /\ r.content = ErrorMessage(max_retries)

\* the records of the previous snapshot that the test of line 294 skips
WithoutHash ==
    {r \in Range(previous_analysis.singleFileResults) : ~Truthy(r.fileHash)}

\* C30: a previous record with an empty fileHash is ignored by the diff of
\* an incremental run: a discovered file of its path is scheduled and the
\* record is not reused; when no file of its path is discovered, the path is
\* not in removed_files and its <path>.md is left as the last save wrote it.
C30_RecordsWithoutHashAreIgnored ==
    (InRun /\ LoadedPrevious) =>
        \A r \in WithoutHash :
            /\ \A f \in Range(all_files) :
                   relpath(f) = r.filename =>
                       /\ f \in Range(files_to_analyze)
                       /\ r.filename \notin Reuse
            /\ r.filename \notin DiscoveredPaths =>
                   /\ r.filename \notin Range(removed_files)
                   /\ artifacts[r.filename] = r.content

\* an incremental run on a snapshot holding a record without a hash whose
\* file is gone, next to a file that is still there
C30_Witness ==
    /\ InRun /\ LoadedPrevious
    /\ all_files # <<>>
    /\ \E r \in WithoutHash :
           /\ r.filename \notin DiscoveredPaths
           /\ artifacts[r.filename] = r.content

====
